---- MODULE Spec2Model ----
(***************************************************************************)
(* Model of LibraryStore (src/models/library_models.py): the catalog of    *)
(* books and members, the per-book waitlist, the undo stack and the JSON   *)
(* snapshot written by _save.  Every method is a pure operator from the    *)
(* store before the call to the store after it plus the returned status;   *)
(* an action applies one method to the current store.                      *)
(***************************************************************************)
EXTENDS Integers, Sequences, FiniteSets, TLC

VARIABLES books, users, undo_stack, file, disk, result, callers

vars == <<books, users, undo_stack, file, disk, result, callers>>

\* ---------------------------------------------------------------- bounds
MaxCopies == 2
MaxUndo == 3
MaxWait == 2

BookIds == {"B001"}
UserIds == {"U001", "U002", "U003"}

\* The day the calls are made, and the loan date the borrow calls pass
\* (on_borrow lets through fecha >= today).
Today == "2024-01-02"
Dates == {"2024-01-03"}

\* Python's None for the optional promoted member of a return entry.
None == "None"

\* ------------------------------------------------------------ date values
\* borrow_book receives fecha.isoformat(), a str; return_book stores
\* datetime.now().date(), a datetime.date object.
IsoStr(d) == [type |-> "str", value |-> d]
DateObj(d) == [type |-> "date", value |-> d]

\* ------------------------------------------------------------ sequences
\* The position a front-to-back scan stops at, given the positions that
\* match; 0 when none does.
First(hits) ==
  IF hits = {} THEN 0 ELSE CHOOSE i \in hits : \A j \in hits : i <= j

RemoveAt(s, i) == SubSeq(s, 1, i - 1) \o SubSeq(s, i + 1, Len(s))

\* list.remove(x): drops the first element equal to x.
ListRemove(s, x) ==
  LET i == First({j \in 1..Len(s) : s[j] = x})
  IN IF i = 0 THEN s ELSE RemoveAt(s, i)

InSeq(x, s) == \E i \in 1..Len(s) : s[i] = x

\* ------------------------------------------------------------ the records
\* A Book whose copies start off the shelf.
Book_NoCopies(id, copies_total) ==
  [id |-> id, copies_total |-> copies_total,
   copies_available |-> 0, reservations |-> <<>>]

Book(id, copies_total) ==
  [id |-> id, copies_total |-> copies_total,
   copies_available |-> copies_total, reservations |-> <<>>]

BorrowedBook(book_id, fecha) ==
  [book_id |-> book_id, fecha |-> fecha, quantity |-> 1]

User(id) == [id |-> id, borrowed |-> <<>>]

\* ------------------------------------------------------------ persistence
NoFile == [state |-> "absent"]
Truncated == [state |-> "truncated"]

BorrowedBook_to_dict(bb) ==
  [book_id |-> bb.book_id, quantity |-> bb.quantity, fecha |-> bb.fecha.value]

User_to_dict(u) ==
  [id |-> u.id,
   borrowed |-> [i \in 1..Len(u.borrowed) |-> BorrowedBook_to_dict(u.borrowed[i])]]

Book_to_dict(b) ==
  [id |-> b.id, copies_total |-> b.copies_total,
   copies_available |-> b.copies_available, reservations |-> b.reservations]

\* json.dump raises TypeError on a datetime.date value.
Serializable(S) ==
  \A i \in 1..Len(S.users) : \A j \in 1..Len(S.users[i].borrowed) :
    S.users[i].borrowed[j].fecha.type = "str"

Snapshot(S) ==
  [state |-> "json",
   books |-> [i \in 1..Len(S.books) |-> Book_to_dict(S.books[i])],
   users |-> [i \in 1..Len(S.users) |-> User_to_dict(S.users[i])]]

\* _save: returns the store after the write and the exception raised, if any.
\* open(..., "w") raises OSError before touching the file when the storage is
\* unwritable (a transient fault: it lasts for one open); a TypeError inside
\* json.dump leaves the file truncated.
_save(S) ==
  IF S.disk = "unwritable"
  THEN [store |-> [S EXCEPT !.disk = "repaired"], raised |-> "OSError"]
  ELSE IF Serializable(S)
  THEN [store |-> [S EXCEPT !.file = Snapshot(S)], raised |-> "none"]
  ELSE [store |-> [S EXCEPT !.file = Truncated], raised |-> "TypeError"]

\* Book.from_dict / BorrowedBook.from_dict / User.from_dict on the dicts that
\* _save writes: the stored fecha is a JSON string.
Book_from_dict(d) ==
  [id |-> d.id, copies_total |-> d.copies_total,
   copies_available |-> d.copies_available, reservations |-> d.reservations]

BorrowedBook_from_dict(d) ==
  [book_id |-> d.book_id, fecha |-> IsoStr(d.fecha), quantity |-> d.quantity]

\* An entry of a persisted borrowed list in the old format: a bare JSON
\* string holding the book id (the new format is a dict).
OldItem(book_id) == [str |-> book_id]

\* isinstance(item, str)
IsStr(item) == "str" \in DOMAIN item

\* User.from_dict raises TypeError on an old-format entry:
\* BorrowedBook(book_id=item) lacks the required field fecha.
User_from_dict_Raises(d) ==
  \E i \in 1..Len(d.borrowed) : IsStr(d.borrowed[i])

User_from_dict(d) ==
  [id |-> d.id,
   borrowed |-> [i \in 1..Len(d.borrowed) |-> BorrowedBook_from_dict(d.borrowed[i])]]

\* _load on a fresh store: a missing file and a file json.load rejects both
\* leave the empty lists set by __init__; an exception while the members are
\* built is swallowed after self.books was assigned, so the books stay and
\* the members stay empty.
_load(f) ==
  IF f.state = "json"
  THEN IF \E i \in 1..Len(f.users) : User_from_dict_Raises(f.users[i])
       THEN [books |-> [i \in 1..Len(f.books) |-> Book_from_dict(f.books[i])],
             users |-> <<>>]
       ELSE [books |-> [i \in 1..Len(f.books) |-> Book_from_dict(f.books[i])],
             users |-> [i \in 1..Len(f.users) |-> User_from_dict(f.users[i])]]
  ELSE [books |-> <<>>, users |-> <<>>]

\* ------------------------------------------------------------ lookups
find_book(S, book_id) ==
  First({i \in 1..Len(S.books) : S.books[i].id = book_id})

find_user(S, user_id) ==
  First({i \in 1..Len(S.users) : S.users[i].id = user_id})

\* A scan of the loan records that stops at the first record whatever its
\* book.
FindBorrowed_AnyBook(borrowed, book_id) ==
  IF borrowed = <<>> THEN 0 ELSE 1

FindBorrowed(borrowed, book_id) ==
  First({i \in 1..Len(borrowed) : borrowed[i].book_id = book_id})

\* AddCopy that also stamps the given date on a record it increments.
AddCopy_Redated(borrowed, book_id, fecha) ==
  LET i == FindBorrowed(borrowed, book_id)
  IN IF i # 0
     THEN [borrowed EXCEPT ![i].quantity = @ + 1, ![i].fecha = fecha]
     ELSE Append(borrowed, BorrowedBook(book_id, fecha))

\* The loop "quantity += 1 if found, else append a new record".
AddCopy(borrowed, book_id, fecha) ==
  LET i == FindBorrowed(borrowed, book_id)
  IN IF i # 0
     THEN [borrowed EXCEPT ![i].quantity = @ + 1]
     ELSE Append(borrowed, BorrowedBook(book_id, fecha))

\* Taking a copy off a record without ever removing the record.
TakeCopy_KeepsEmpty(borrowed, i) ==
  [borrowed EXCEPT ![i].quantity = @ - 1]

\* "quantity -= 1; if quantity <= 0: borrowed.remove(item)" on record i.
TakeCopy(borrowed, i) ==
  LET dec == [borrowed EXCEPT ![i].quantity = @ - 1]
  IN IF dec[i].quantity <= 0 THEN ListRemove(dec, dec[i]) ELSE dec

\* A method's outcome: the store it leaves, the status it reaches (kind, with
\* the number and the promotion note shown in the message), and the exception
\* raised by the final _save; the status reaches the caller iff raised is
\* "none".
Ret(S, kind, n) ==
  [store |-> S, kind |-> kind, n |-> n, msg_auto |-> "", raised |-> "none"]

\* "self._save(); return <status>".
Saved(S, kind, n, msg_auto) ==
  LET w == _save(S)
  IN [store |-> w.store, kind |-> kind, n |-> n, msg_auto |-> msg_auto,
      raised |-> w.raised]

\* ------------------------------------------------------------ the methods
\* add_book that replaces the record of an id it already has.
add_book_Overwrites(S, book) ==
  IF find_book(S, book.id) # 0
  THEN Ret([S EXCEPT !.books[find_book(S, book.id)] = book],
           "DuplicateBook", 0)
  ELSE Saved([S EXCEPT !.books = Append(@, book)], "BookAdded", 0, "")

add_book(S, book) ==
  IF find_book(S, book.id) # 0
  THEN Ret(S, "DuplicateBook", 0)
  ELSE Saved([S EXCEPT !.books = Append(@, book)], "BookAdded", 0, "")

\* add_user that appends without looking for the id.
add_user_NoCheck(S, user) ==
  Saved([S EXCEPT !.users = Append(@, user)], "UserAdded", 0, "")

add_user(S, user) ==
  IF find_user(S, user.id) # 0
  THEN Ret(S, "DuplicateUser", 0)
  ELSE Saved([S EXCEPT !.users = Append(@, user)], "UserAdded", 0, "")

BorrowEntry(user_id, book_id) ==
  [op |-> "borrow", user_id |-> user_id, book_id |-> book_id]

\* A return entry that never records the promoted member.
ReturnEntry_NoPromotion(user_id, book_id, fecha, autoloan_to_next) ==
  [op |-> "return", user_id |-> user_id, book_id |-> book_id,
   fecha |-> fecha, autoloan_to_next |-> None]

ReturnEntry(user_id, book_id, fecha, autoloan_to_next) ==
  [op |-> "return", user_id |-> user_id, book_id |-> book_id,
   fecha |-> fecha, autoloan_to_next |-> autoloan_to_next]

\* borrow_book that queues an id for a book without copies before asking
\* whether it is a member's.
borrow_book_QueuesUnknown(S, user_id, book_id, fecha) ==
  LET ui == find_user(S, user_id)
      bi == find_book(S, book_id)
  IN IF bi = 0 THEN Ret(S, "BookNotFound", 0)
     ELSE IF S.books[bi].copies_available > 0
     THEN IF ui = 0 THEN Ret(S, "UserNotFound", 0)
          ELSE LET S1 == [S EXCEPT
                            !.books[bi].copies_available = @ - 1,
                            !.users[ui].borrowed = AddCopy(@, book_id, fecha),
                            !.undo_stack = Append(@, BorrowEntry(user_id, book_id))]
               IN Saved(S1, "Loaned", S1.books[bi].copies_available, "")
     ELSE IF InSeq(user_id, S.books[bi].reservations)
     THEN Ret(S, "AlreadyQueued", 0)
     ELSE LET S1 == [S EXCEPT !.books[bi].reservations = Append(@, user_id)]
          IN Saved(S1, "Queued", Len(S1.books[bi].reservations), "")

\* borrow_book that queues the member without looking for it in the waitlist.
borrow_book_NoQueueCheck(S, user_id, book_id, fecha) ==
  LET ui == find_user(S, user_id)
      bi == find_book(S, book_id)
  IN IF ui = 0 THEN Ret(S, "UserNotFound", 0)
     ELSE IF bi = 0 THEN Ret(S, "BookNotFound", 0)
     ELSE IF S.books[bi].copies_available > 0
     THEN LET S1 == [S EXCEPT
                       !.books[bi].copies_available = @ - 1,
                       !.users[ui].borrowed = AddCopy(@, book_id, fecha),
                       !.undo_stack = Append(@, BorrowEntry(user_id, book_id))]
          IN Saved(S1, "Loaned", S1.books[bi].copies_available, "")
     ELSE LET S1 == [S EXCEPT !.books[bi].reservations = Append(@, user_id)]
          IN Saved(S1, "Queued", Len(S1.books[bi].reservations), "")

\* borrow_book that reports the queue position counted before the insertion.
borrow_book_PositionBefore(S, user_id, book_id, fecha) ==
  LET ui == find_user(S, user_id)
      bi == find_book(S, book_id)
  IN IF ui = 0 THEN Ret(S, "UserNotFound", 0)
     ELSE IF bi = 0 THEN Ret(S, "BookNotFound", 0)
     ELSE IF S.books[bi].copies_available > 0
     THEN LET S1 == [S EXCEPT
                       !.books[bi].copies_available = @ - 1,
                       !.users[ui].borrowed = AddCopy(@, book_id, fecha),
                       !.undo_stack = Append(@, BorrowEntry(user_id, book_id))]
          IN Saved(S1, "Loaned", S1.books[bi].copies_available, "")
     ELSE IF InSeq(user_id, S.books[bi].reservations)
     THEN Ret(S, "AlreadyQueued", 0)
     ELSE LET S1 == [S EXCEPT !.books[bi].reservations = Append(@, user_id)]
          IN Saved(S1, "Queued", Len(S.books[bi].reservations), "")

\* borrow_book that also logs a waitlist admission on the undo stack.
borrow_book_LogsQueue(S, user_id, book_id, fecha) ==
  LET ui == find_user(S, user_id)
      bi == find_book(S, book_id)
  IN IF ui = 0 THEN Ret(S, "UserNotFound", 0)
     ELSE IF bi = 0 THEN Ret(S, "BookNotFound", 0)
     ELSE IF S.books[bi].copies_available > 0
     THEN LET S1 == [S EXCEPT
                       !.books[bi].copies_available = @ - 1,
                       !.users[ui].borrowed = AddCopy(@, book_id, fecha),
                       !.undo_stack = Append(@, BorrowEntry(user_id, book_id))]
          IN Saved(S1, "Loaned", S1.books[bi].copies_available, "")
     ELSE IF InSeq(user_id, S.books[bi].reservations)
     THEN Ret(S, "AlreadyQueued", 0)
     ELSE LET S1 == [S EXCEPT
                       !.books[bi].reservations = Append(@, user_id),
                       !.undo_stack = Append(@, BorrowEntry(user_id, book_id))]
          IN Saved(S1, "Queued", Len(S1.books[bi].reservations), "")

borrow_book(S, user_id, book_id, fecha) ==
  LET ui == find_user(S, user_id)
      bi == find_book(S, book_id)
  IN IF ui = 0 THEN Ret(S, "UserNotFound", 0)
     ELSE IF bi = 0 THEN Ret(S, "BookNotFound", 0)
     ELSE IF S.books[bi].copies_available > 0
     THEN LET S1 == [S EXCEPT
                       !.books[bi].copies_available = @ - 1,
                       !.users[ui].borrowed = AddCopy(@, book_id, fecha),
                       !.undo_stack = Append(@, BorrowEntry(user_id, book_id))]
          IN Saved(S1, "Loaned", S1.books[bi].copies_available, "")
     ELSE IF InSeq(user_id, S.books[bi].reservations)
     THEN Ret(S, "AlreadyQueued", 0)
     ELSE LET S1 == [S EXCEPT !.books[bi].reservations = Append(@, user_id)]
          IN Saved(S1, "Queued", Len(S1.books[bi].reservations), "")

\* Promote that puts an id it cannot find back at the end of the waitlist.
Promote_RequeuesMissing(S, bi, book_id, now) ==
  IF S.books[bi].reservations = <<>>
  THEN [store |-> S, autoloan_to_next |-> None, msg_auto |-> ""]
  ELSE LET next_user_id == Head(S.books[bi].reservations)
           S1 == [S EXCEPT !.books[bi].reservations = Tail(@)]
           ni == find_user(S1, next_user_id)
       IN IF ni # 0
          THEN [store |-> [S1 EXCEPT
                             !.books[bi].copies_available = @ - 1,
                             !.users[ni].borrowed =
                                AddCopy(@, book_id, DateObj(now))],
                autoloan_to_next |-> next_user_id,
                msg_auto |-> "assigned"]
          ELSE [store |-> [S1 EXCEPT !.books[bi].reservations =
                             Append(@, next_user_id)],
                autoloan_to_next |-> None, msg_auto |-> "missing"]

\* Promote that lends the copy to the waitlist head without taking it off
\* copies_available.
Promote_KeepsCopy(S, bi, book_id, now) ==
  IF S.books[bi].reservations = <<>>
  THEN [store |-> S, autoloan_to_next |-> None, msg_auto |-> ""]
  ELSE LET next_user_id == Head(S.books[bi].reservations)
           S1 == [S EXCEPT !.books[bi].reservations = Tail(@)]
           ni == find_user(S1, next_user_id)
       IN IF ni # 0
          THEN [store |-> [S1 EXCEPT
                             !.users[ni].borrowed =
                                AddCopy(@, book_id, DateObj(now))],
                autoloan_to_next |-> next_user_id,
                msg_auto |-> "assigned"]
          ELSE [store |-> S1, autoloan_to_next |-> None, msg_auto |-> "missing"]

\* The promotion block of return_book, run after the copy has been put back:
\* pops the waitlist head and lends it the copy if it is a known member.
Promote(S, bi, book_id, now) ==
  IF S.books[bi].reservations = <<>>
  THEN [store |-> S, autoloan_to_next |-> None, msg_auto |-> ""]
  ELSE LET next_user_id == Head(S.books[bi].reservations)
           S1 == [S EXCEPT !.books[bi].reservations = Tail(@)]
           ni == find_user(S1, next_user_id)
       IN IF ni # 0
          THEN [store |-> [S1 EXCEPT
                             !.books[bi].copies_available = @ - 1,
                             !.users[ni].borrowed =
                                AddCopy(@, book_id, DateObj(now))],
                autoloan_to_next |-> next_user_id,
                msg_auto |-> "assigned"]
          ELSE [store |-> S1, autoloan_to_next |-> None, msg_auto |-> "missing"]

\* return_book that logs the day of the return instead of the loan's date.
return_book_LogsToday(S, user_id, book_id, now) ==
  LET ui == find_user(S, user_id)
      bi == find_book(S, book_id)
  IN IF ui = 0 THEN Ret(S, "UserNotFound", 0)
     ELSE IF bi = 0 THEN Ret(S, "BookNotFound", 0)
     ELSE LET k == FindBorrowed(S.users[ui].borrowed, book_id)
          IN IF k = 0 THEN Ret(S, "NoSuchLoan", 0)
             ELSE LET S1 == [S EXCEPT
                               !.users[ui].borrowed = TakeCopy(@, k),
                               !.books[bi].copies_available = @ + 1]
                      p == Promote(S1, bi, book_id, now)
                      S2 == [p.store EXCEPT !.undo_stack =
                               Append(@, ReturnEntry(user_id, book_id,
                                                     IsoStr(now),
                                                     p.autoloan_to_next))]
                  IN Saved(S2, "Returned", S2.books[bi].copies_available,
                           p.msg_auto)

\* return_book that hands a copy back to the shelf (and on to the waitlist)
\* even when the member holds no record for the book.
return_book_NoLoanFreesCopy(S, user_id, book_id, now) ==
  LET ui == find_user(S, user_id)
      bi == find_book(S, book_id)
  IN IF ui = 0 THEN Ret(S, "UserNotFound", 0)
     ELSE IF bi = 0 THEN Ret(S, "BookNotFound", 0)
     ELSE LET k == FindBorrowed(S.users[ui].borrowed, book_id)
          IN IF k = 0
             THEN LET S1 == [S EXCEPT !.books[bi].copies_available = @ + 1]
                  IN Ret(Promote(S1, bi, book_id, now).store, "NoSuchLoan", 0)
             ELSE LET borrowed_item == S.users[ui].borrowed[k]
                      S1 == [S EXCEPT
                               !.users[ui].borrowed = TakeCopy(@, k),
                               !.books[bi].copies_available = @ + 1]
                      p == Promote(S1, bi, book_id, now)
                      S2 == [p.store EXCEPT !.undo_stack =
                               Append(@, ReturnEntry(user_id, book_id,
                                                     borrowed_item.fecha,
                                                     p.autoloan_to_next))]
                  IN Saved(S2, "Returned", S2.books[bi].copies_available,
                           p.msg_auto)

\* return_book that looks for the book before the member.
return_book_BookFirst(S, user_id, book_id, now) ==
  LET ui == find_user(S, user_id)
      bi == find_book(S, book_id)
  IN IF bi = 0 THEN Ret(S, "BookNotFound", 0)
     ELSE IF ui = 0 THEN Ret(S, "UserNotFound", 0)
     ELSE LET k == FindBorrowed(S.users[ui].borrowed, book_id)
          IN IF k = 0 THEN Ret(S, "NoSuchLoan", 0)
             ELSE LET borrowed_item == S.users[ui].borrowed[k]
                      S1 == [S EXCEPT
                               !.users[ui].borrowed = TakeCopy(@, k),
                               !.books[bi].copies_available = @ + 1]
                      p == Promote(S1, bi, book_id, now)
                      S2 == [p.store EXCEPT !.undo_stack =
                               Append(@, ReturnEntry(user_id, book_id,
                                                     borrowed_item.fecha,
                                                     p.autoloan_to_next))]
                  IN Saved(S2, "Returned", S2.books[bi].copies_available,
                           p.msg_auto)

return_book(S, user_id, book_id, now) ==
  LET ui == find_user(S, user_id)
      bi == find_book(S, book_id)
  IN IF ui = 0 THEN Ret(S, "UserNotFound", 0)
     ELSE IF bi = 0 THEN Ret(S, "BookNotFound", 0)
     ELSE LET k == FindBorrowed(S.users[ui].borrowed, book_id)
          IN IF k = 0 THEN Ret(S, "NoSuchLoan", 0)
             ELSE LET borrowed_item == S.users[ui].borrowed[k]
                      S1 == [S EXCEPT
                               !.users[ui].borrowed = TakeCopy(@, k),
                               !.books[bi].copies_available = @ + 1]
                      p == Promote(S1, bi, book_id, now)
                      S2 == [p.store EXCEPT !.undo_stack =
                               Append(@, ReturnEntry(user_id, book_id,
                                                     borrowed_item.fecha,
                                                     p.autoloan_to_next))]
                  IN Saved(S2, "Returned", S2.books[bi].copies_available,
                           p.msg_auto)

\* Undoing a loan without putting the copy back on the shelf.
UndoBorrow_KeepsCopy(S, last) ==
  LET ui == find_user(S, last.user_id)
      bi == find_book(S, last.book_id)
  IN IF ui # 0 /\ bi # 0 /\ FindBorrowed(S.users[ui].borrowed, S.books[bi].id) # 0
     THEN LET k == FindBorrowed(S.users[ui].borrowed, S.books[bi].id)
              S1 == [S EXCEPT !.users[ui].borrowed = TakeCopy(@, k)]
          IN Saved(S1, "UndoneBorrow", 0, "")
     ELSE Ret(S, "UndoBorrowFailed", 0)

\* The "borrow" branch of undo_last, on the store with the entry popped.
UndoBorrow(S, last) ==
  LET ui == find_user(S, last.user_id)
      bi == find_book(S, last.book_id)
  IN IF ui # 0 /\ bi # 0 /\ FindBorrowed(S.users[ui].borrowed, S.books[bi].id) # 0
     THEN LET k == FindBorrowed(S.users[ui].borrowed, S.books[bi].id)
              S1 == [S EXCEPT !.users[ui].borrowed = TakeCopy(@, k),
                              !.books[bi].copies_available = @ + 1]
          IN Saved(S1, "UndoneBorrow", 0, "")
     ELSE Ret(S, "UndoBorrowFailed", 0)

\* Unpromote that takes the promoted member's copy without putting it back
\* on the shelf.
Unpromote_KeepsCount(S, bi, next_user_id) ==
  LET ni == IF next_user_id # None /\ next_user_id # ""
            THEN find_user(S, next_user_id) ELSE 0
      k == IF ni # 0 THEN FindBorrowed(S.users[ni].borrowed, S.books[bi].id)
           ELSE 0
  IN IF k # 0
     THEN [S EXCEPT !.users[ni].borrowed = TakeCopy(@, k),
                    !.books[bi].reservations = <<next_user_id>> \o @]
     ELSE S

\* Unpromote that re-queues the promoted member with append, at the back.
Unpromote_ToBack(S, bi, next_user_id) ==
  LET ni == IF next_user_id # None /\ next_user_id # ""
            THEN find_user(S, next_user_id) ELSE 0
      k == IF ni # 0 THEN FindBorrowed(S.users[ni].borrowed, S.books[bi].id)
           ELSE 0
  IN IF k # 0
     THEN [S EXCEPT !.users[ni].borrowed = TakeCopy(@, k),
                    !.books[bi].reservations = Append(@, next_user_id),
                    !.books[bi].copies_available = @ + 1]
     ELSE S

\* Step "ELIMINAR PRESTAMO AUTOMATICO" of the "return" branch.
Unpromote(S, bi, next_user_id) ==
  LET ni == IF next_user_id # None /\ next_user_id # ""
            THEN find_user(S, next_user_id) ELSE 0
      k == IF ni # 0 THEN FindBorrowed(S.users[ni].borrowed, S.books[bi].id)
           ELSE 0
  IN IF k # 0
     THEN [S EXCEPT !.users[ni].borrowed = TakeCopy(@, k),
                    !.books[bi].reservations = <<next_user_id>> \o @,
                    !.books[bi].copies_available = @ + 1]
     ELSE S

\* UndoReturn that dates a re-created record with the day of the undo
\* instead of the date kept in the entry.
UndoReturn_Redated(S, last) ==
  LET ui == find_user(S, last.user_id)
      bi == find_book(S, last.book_id)
  IN IF ui = 0 \/ bi = 0 THEN Ret(S, "UndoReturnFailed", 0)
     ELSE LET S1 == Unpromote(S, bi, last.autoloan_to_next)
          IN IF S1.books[bi].copies_available > 0
             THEN LET S2 == [S1 EXCEPT
                               !.books[bi].copies_available = @ - 1,
                               !.users[ui].borrowed =
                                  AddCopy(@, S1.books[bi].id, IsoStr(Today))]
                  IN Saved(S2, "UndoneReturn", 0, "")
             ELSE Ret(S1, "UndoNoCopy", 0)

\* The "return" branch of undo_last, on the store with the entry popped.
UndoReturn(S, last) ==
  LET ui == find_user(S, last.user_id)
      bi == find_book(S, last.book_id)
  IN IF ui = 0 \/ bi = 0 THEN Ret(S, "UndoReturnFailed", 0)
     ELSE LET S1 == Unpromote(S, bi, last.autoloan_to_next)
          IN IF S1.books[bi].copies_available > 0
             THEN LET S2 == [S1 EXCEPT
                               !.books[bi].copies_available = @ - 1,
                               !.users[ui].borrowed =
                                  AddCopy(@, S1.books[bi].id, last.fecha)]
                  IN Saved(S2, "UndoneReturn", 0, "")
             ELSE Ret(S1, "UndoNoCopy", 0)

\* undo_last that puts the entry back on the stack when the reversal fails.
undo_last_RepushesFailed(S) ==
  IF S.undo_stack = <<>> THEN Ret(S, "NothingToUndo", 0)
  ELSE LET last == S.undo_stack[Len(S.undo_stack)]
           S1 == [S EXCEPT !.undo_stack = SubSeq(@, 1, Len(@) - 1)]
           r == IF last.op = "borrow" THEN UndoBorrow(S1, last)
                ELSE IF last.op = "return" THEN UndoReturn(S1, last)
                ELSE Ret(S1, "UnknownOp", 0)
       IN IF r.kind \in {"UndoneBorrow", "UndoneReturn"} THEN r
          ELSE [r EXCEPT !.store.undo_stack = Append(@, last)]

\* undo_last that rewrites the file even when there is nothing to undo.
undo_last_SavesOnEmpty(S) ==
  IF S.undo_stack = <<>> THEN Saved(S, "NothingToUndo", 0, "")
  ELSE LET last == S.undo_stack[Len(S.undo_stack)]
           S1 == [S EXCEPT !.undo_stack = SubSeq(@, 1, Len(@) - 1)]
       IN IF last.op = "borrow" THEN UndoBorrow(S1, last)
          ELSE IF last.op = "return" THEN UndoReturn(S1, last)
          ELSE Ret(S1, "UnknownOp", 0)

undo_last(S) ==
  IF S.undo_stack = <<>> THEN Ret(S, "NothingToUndo", 0)
  ELSE LET last == S.undo_stack[Len(S.undo_stack)]
           S1 == [S EXCEPT !.undo_stack = SubSeq(@, 1, Len(@) - 1)]
       IN IF last.op = "borrow" THEN UndoBorrow(S1, last)
          ELSE IF last.op = "return" THEN UndoReturn(S1, last)
          ELSE Ret(S1, "UnknownOp", 0)

\* ------------------------------------------------------------ the machine
Store ==
  [books |-> books, users |-> users, undo_stack |-> undo_stack,
   file |-> file, disk |-> disk]

Bounded(S) ==
  /\ Len(S.undo_stack) <= MaxUndo
  /\ \A i \in 1..Len(S.books) : Len(S.books[i].reservations) <= MaxWait

\* One call: the store becomes the one the method leaves, and result records
\* the call and its outcome.  The actions take a call only while it keeps the
\* undo stack and the waitlists within MaxUndo and MaxWait.
Call(op, user_id, book_id, r) ==
  /\ books' = r.store.books
  /\ users' = r.store.users
  /\ undo_stack' = r.store.undo_stack
  /\ file' = r.store.file
  /\ disk' = r.store.disk
  /\ callers' = callers
  /\ result' = [op |-> op, user_id |-> user_id, book_id |-> book_id,
                kind |-> r.kind, n |-> r.n, msg_auto |-> r.msg_auto,
                raised |-> r.raised]

\* The application calls the store from the handlers of one event loop, one
\* call at a time: no caller is ever inside a method when the next call starts.
NoCallers == [mode |-> "serialized", t |-> <<>>]

\* LibraryStore("library_data.json") with no data file: _load returns at once.
Init ==
  /\ callers = NoCallers
  /\ books = <<>>
  /\ users = <<>>
  /\ undo_stack = <<>>
  /\ file = NoFile
  /\ disk = "ok"
  /\ result = [op |-> "init", user_id |-> None, book_id |-> None,
               kind |-> "none", n |-> 0, msg_auto |-> "", raised |-> "none"]

AddBook ==
  \E id \in BookIds, c \in 0..MaxCopies :
    /\ Bounded(add_book(Store, Book(id, c)).store)
    /\ Call("add_book", None, id, add_book(Store, Book(id, c)))

\* Member ids are opaque to the store (compared for equality only), so new
\* members are registered in one fixed order of the ids; an id already
\* registered can be offered again at any time.
UserOrder == <<"U001", "U002", "U003">>

AddUser ==
  \E id \in UserIds :
    /\ IF find_user(Store, id) # 0 THEN TRUE
       ELSE Len(users) < Len(UserOrder) /\ id = UserOrder[Len(users) + 1]
    /\ Bounded(add_user(Store, User(id)).store)
    /\ Call("add_user", id, None, add_user(Store, User(id)))

BorrowBook ==
  \E u \in UserIds, b \in BookIds, d \in Dates :
    /\ Bounded(borrow_book(Store, u, b, IsoStr(d)).store)
    /\ Call("borrow_book", u, b, borrow_book(Store, u, b, IsoStr(d)))

ReturnBook ==
  \E u \in UserIds, b \in BookIds :
    /\ Bounded(return_book(Store, u, b, Today).store)
    /\ Call("return_book", u, b, return_book(Store, u, b, Today))

UndoLast ==
  /\ Bounded(undo_last(Store).store)
  /\ Call("undo_last", None, None, undo_last(Store))

Next == AddBook \/ AddUser \/ BorrowBook \/ ReturnBook \/ UndoLast

Spec == Init /\ [][Next]_vars

\* The same store on storage that becomes unwritable once, for the next write,
\* or recovers before it.
StorageFails ==
  /\ disk = "ok"
  /\ disk' = "unwritable"
  /\ UNCHANGED <<books, users, undo_stack, file, result, callers>>

StorageRecovers ==
  /\ disk = "unwritable"
  /\ disk' = "repaired"
  /\ UNCHANGED <<books, users, undo_stack, file, result, callers>>

NextIO ==
  \/ AddBook \/ AddUser \/ BorrowBook \/ ReturnBook \/ UndoLast
  \/ StorageFails \/ StorageRecovers

SpecIO == Init /\ [][NextIO]_vars

\* ------------------------------------------------------------ observers
RECURSIVE SumQuantity(_, _)
SumQuantity(borrowed, book_id) ==
  IF borrowed = <<>> THEN 0
  ELSE (IF Head(borrowed).book_id = book_id THEN Head(borrowed).quantity ELSE 0)
       + SumQuantity(Tail(borrowed), book_id)

RECURSIVE Lent(_, _)
Lent(us, book_id) ==
  IF us = <<>> THEN 0
  ELSE SumQuantity(Head(us).borrowed, book_id) + Lent(Tail(us), book_id)

\* The loan record member user_id holds for book_id, as reads see it.
Loan(S, user_id, book_id) ==
  LET ui == find_user(S, user_id)
      k == IF ui = 0 THEN 0 ELSE FindBorrowed(S.users[ui].borrowed, book_id)
  IN IF k = 0 THEN [present |-> FALSE, quantity |-> 0, fecha |-> IsoStr("")]
     ELSE [present |-> TRUE, quantity |-> S.users[ui].borrowed[k].quantity,
           fecha |-> S.users[ui].borrowed[k].fecha]

Avail(S, book_id) == S.books[find_book(S, book_id)].copies_available

Waitlist(S, book_id) == S.books[find_book(S, book_id)].reservations

Known(S, user_id, book_id) ==
  find_user(S, user_id) # 0 /\ find_book(S, book_id) # 0

\* ------------------------------------------------------------ C1
\* C1: in every reachable state each book has
\* 0 <= copies_available <= copies_total, and copies_available plus the
\* quantities of all members' loan records for it equals copies_total.
C1_CopiesConserved ==
  \A i \in 1..Len(books) :
    /\ 0 <= books[i].copies_available
    /\ books[i].copies_available <= books[i].copies_total
    /\ books[i].copies_available + Lent(users, books[i].id) = books[i].copies_total

\* An undone return that had promoted a waiting member: every copy is lent
\* again and the member is back in the waitlist.
C1_Witness ==
  /\ result.op = "undo_last" /\ result.kind = "UndoneReturn"
  /\ \E i \in 1..Len(books) :
       /\ books[i].copies_total = 2
       /\ books[i].copies_available = 0
       /\ books[i].reservations # <<>>

\* ------------------------------------------------------------ C2
\* C2: in every reachable state a member id appears at most once in each
\* book's waitlist.
C2_NoDuplicateInWaitlist ==
  \A i \in 1..Len(books) :
    \A j, k \in 1..Len(books[i].reservations) :
      j # k => books[i].reservations[j] # books[i].reservations[k]

\* ------------------------------------------------------------ C3
\* The loan dates a single borrow is tried with.
ProbeDates == Dates \cup {Today}

BorrowThenUndoRestores(u, b, d) ==
  LET r1 == borrow_book(Store, u, b, IsoStr(d))
      r2 == undo_last(r1.store)
  IN /\ Avail(r2.store, b) = Avail(Store, b)
     /\ Loan(r2.store, u, b) = Loan(Store, u, b)

\* C3 as stated: for every reachable state and every existing member and
\* book, borrow_book followed at once by undo_last leaves the book's
\* copies_available and the member's loan record as before the borrow.
C3_BorrowUndoRestores ==
  \A u \in UserIds, b \in BookIds, d \in ProbeDates :
    Known(Store, u, b) => BorrowThenUndoRestores(u, b, d)

\* C3 amended: the same, for a borrow made while the book has a copy
\* available (the borrow that lends a copy and pushes the entry undo pops).
C3_LoanUndoRestores ==
  \A u \in UserIds, b \in BookIds, d \in ProbeDates :
    (Known(Store, u, b) /\ Avail(Store, b) > 0) => BorrowThenUndoRestores(u, b, d)

\* A second copy has just been lent to a member, and undo_last will undo it.
C3_Witness ==
  /\ result.op = "borrow_book" /\ result.kind = "Loaned"
  /\ Loan(Store, result.user_id, result.book_id).quantity = 2
  /\ undo_last(Store).kind = "UndoneBorrow"

\* ------------------------------------------------------------ C4
\* C4: when return_book(M,B) promotes the waitlist head P, an immediately
\* following undo_last restores B's copies_available, the whole waitlist of B
\* and the loan records of M and P for B (whether or not the return's save
\* raised).
C4_PromotedReturnUndoRestores ==
  \A u \in UserIds, b \in BookIds :
    LET r1 == return_book(Store, u, b, Today)
        r2 == undo_last(r1.store)
    IN (r1.kind = "Returned" /\ r1.msg_auto = "assigned") =>
         LET p == Head(Waitlist(Store, b))
         IN /\ r2.kind = "UndoneReturn"
            /\ Avail(r2.store, b) = Avail(Store, b)
            /\ Waitlist(r2.store, b) = Waitlist(Store, b)
            /\ Loan(r2.store, u, b) = Loan(Store, u, b)
            /\ Loan(r2.store, p, b) = Loan(Store, p, b)

\* A return has just succeeded and promoted a member while another member is
\* still waiting behind; undo_last will reverse it.
C4_Witness ==
  /\ result.op = "return_book" /\ result.kind = "Returned"
  /\ result.msg_auto = "assigned" /\ result.raised = "none"
  /\ undo_stack[Len(undo_stack)].autoloan_to_next # result.user_id
  /\ Waitlist(Store, result.book_id) # <<>>
  /\ undo_last(Store).kind = "UndoneReturn"

\* ------------------------------------------------------------ C5
\* C5: when return_book(M,B) succeeds without a promotion, an immediately
\* following undo_last restores B's copies_available and M's loan record for
\* B, its date included.
C5_PlainReturnUndoRestores ==
  \A u \in UserIds, b \in BookIds :
    LET r1 == return_book(Store, u, b, Today)
        r2 == undo_last(r1.store)
    IN (r1.kind = "Returned" /\ r1.raised = "none" /\ r1.msg_auto # "assigned") =>
         /\ r2.kind = "UndoneReturn"
         /\ Avail(r2.store, b) = Avail(Store, b)
         /\ Loan(r2.store, u, b) = Loan(Store, u, b)

\* A return has just removed a member's only copy, nobody was promoted, and
\* undo_last will restore the record with the date kept in the entry.
C5_Witness ==
  /\ result.op = "return_book" /\ result.kind = "Returned"
  /\ result.msg_auto = "" /\ result.raised = "none"
  /\ ~Loan(Store, result.user_id, result.book_id).present
  /\ undo_last(Store).kind = "UndoneReturn"
  /\ Loan(undo_last(Store).store, result.user_id, result.book_id).fecha
       = IsoStr("2024-01-03")

\* ------------------------------------------------------------ C6
\* C6: a member queued behind another member for a book never obtains a copy
\* of it from a borrow or a return while the member ahead is still waiting:
\* the next copy handed out goes to the member at the head of the waitlist.
C6_WaitingOrderRespected ==
  [][result'.op \in {"borrow_book", "return_book"} =>
       \A i \in 1..Len(books) :
         \A j, k \in 1..Len(books[i].reservations) :
           LET w == books[i].reservations
           IN (j < k /\ \A m \in 1..j : w[m] # w[k]) =>
                Loan(Store', w[k], books[i].id).quantity
                  <= Loan(Store, w[k], books[i].id).quantity]_vars

\* ------------------------------------------------------------ C7
Pushed(old, new) ==
  Len(new) = Len(old) + 1 /\ SubSeq(new, 1, Len(old)) = old

\* C7 as stated: every add_book, add_user, borrow_book or return_book call
\* that changes the catalog appends exactly one entry to the undo stack, and
\* every call that changes nothing leaves the undo stack unchanged.
C7_MutationPushesOneEntry ==
  [][result'.op \in {"add_book", "add_user", "borrow_book", "return_book"} =>
       IF <<books', users'>> # <<books, users>>
       THEN Pushed(undo_stack, undo_stack')
       ELSE undo_stack' = undo_stack]_vars

\* C7 amended: a borrow_book that lends a copy and a return_book that passes
\* validation append exactly one entry; add_book, add_user, a waitlist
\* admission and every call that fails validation leave the undo stack
\* unchanged.
C7_LoanOrReturnPushesOneEntry ==
  [][result'.op \in {"add_book", "add_user", "borrow_book", "return_book"} =>
       IF result'.kind \in {"Loaned", "Returned"}
       THEN Pushed(undo_stack, undo_stack')
       ELSE undo_stack' = undo_stack]_vars

\* A member has just been admitted to a waitlist while the undo stack holds
\* the entry of an earlier loan.
C7_Witness ==
  /\ result.op = "borrow_book" /\ result.kind = "Queued"
  /\ Waitlist(Store, result.book_id)
       = <<result.user_id>>
  /\ Len(undo_stack) = 1

\* ------------------------------------------------------------ C8
\* C8: after every call that returns, loading the file written by _save gives
\* the in-memory catalog.
C8_PersistedEqualsMemory ==
  (result.op # "init" /\ result.raised = "none") =>
     _load(file) = [books |-> books, users |-> users]

\* ------------------------------------------------------------ C9
\* C9: every return_book call that passes validation saves the catalog
\* without error and returns the status reporting copies_available.
C9_ReturnSavesAndReports ==
  (result.op = "return_book" /\ result.kind = "Returned") =>
     /\ result.raised = "none"
     /\ file = Snapshot(Store)
     /\ result.n = Avail(Store, result.book_id)

\* ------------------------------------------------------------ C10
\* C10: no call throws when the persistence write fails, and the in-memory
\* catalog keeps its copy-count invariant.
C10_FailedSaveDoesNotThrow ==
  result.op # "init" =>
     /\ result.raised = "none"
     /\ \A i \in 1..Len(books) :
          books[i].copies_available + Lent(users, books[i].id)
            = books[i].copies_total

\* ------------------------------------------------------------ C11
\* C11: borrow_book(M,B,date) with M and B registered and a copy available
\* takes exactly one copy from copies_available; increments M's record for B
\* and keeps its date if M has one, else creates a record of quantity 1 with
\* the given date; appends the one entry {borrow, M, B}; and reports the new
\* copies_available.
C11_LoanEffect ==
  \A u \in UserIds, b \in BookIds, d \in ProbeDates :
    (Known(Store, u, b) /\ Avail(Store, b) > 0) =>
      LET r == borrow_book(Store, u, b, IsoStr(d))
          old == Loan(Store, u, b)
          new == Loan(r.store, u, b)
      IN /\ r.kind = "Loaned"
         /\ Avail(r.store, b) = Avail(Store, b) - 1
         /\ new.present
         /\ IF old.present
            THEN new.quantity = old.quantity + 1 /\ new.fecha = old.fecha
            ELSE new.quantity = 1 /\ new.fecha = IsoStr(d)
         /\ r.store.undo_stack = Append(undo_stack, BorrowEntry(u, b))
         /\ r.n = Avail(r.store, b)

\* A first copy has just been lent: the member's new record carries the date
\* passed in and the entry of this loan is on top of the undo stack.
C11_Witness ==
  /\ result.op = "borrow_book" /\ result.kind = "Loaned"
  /\ result.raised = "none"
  /\ Loan(Store, result.user_id, result.book_id)
       = [present |-> TRUE, quantity |-> 1, fecha |-> IsoStr("2024-01-03")]
  /\ undo_stack[Len(undo_stack)] = BorrowEntry(result.user_id, result.book_id)
  /\ result.n = Avail(Store, result.book_id)

\* ------------------------------------------------------------ C12
\* C12: borrow_book(M,B,date) with M and B registered, no copy available and
\* M not in B's waitlist appends M at the back of the waitlist, reports the
\* waitlist length after the insertion, pushes no undo entry and leaves
\* copies_available and all loan records unchanged.
C12_QueueEffect ==
  \A u \in UserIds, b \in BookIds, d \in ProbeDates :
    (/\ Known(Store, u, b)
     /\ Avail(Store, b) = 0
     /\ ~InSeq(u, Waitlist(Store, b))) =>
      LET r == borrow_book(Store, u, b, IsoStr(d))
      IN /\ r.kind = "Queued"
         /\ Waitlist(r.store, b) = Append(Waitlist(Store, b), u)
         /\ r.n = Len(Waitlist(r.store, b))
         /\ r.store.undo_stack = undo_stack
         /\ Avail(r.store, b) = 0
         /\ r.store.users = users

\* A member has just been queued behind another one and was told position 2.
C12_Witness ==
  /\ result.op = "borrow_book" /\ result.kind = "Queued"
  /\ result.raised = "none" /\ result.n = 2
  /\ Len(Waitlist(Store, result.book_id)) = 2
  /\ Waitlist(Store, result.book_id)[2] = result.user_id
  /\ Waitlist(Store, result.book_id)[1] # result.user_id

\* ------------------------------------------------------------ C13
\* C13: a return_book(M,B) that passes validation takes one copy from M's
\* loan of B (the record goes when it reaches 0) and then, if B's waitlist is
\* empty, adds exactly 1 to copies_available; if it is not, removes the head
\* from the waitlist, gives it one copy (quantity + 1, or a new record dated
\* today) and leaves copies_available at its value before the return.
C13_ReturnEffect ==
  \A u \in UserIds, b \in BookIds :
    LET r == return_book(Store, u, b, Today)
        w == Waitlist(Store, b)
    IN r.kind = "Returned" =>
         /\ \A x \in UserIds :
              LET old == Loan(Store, x, b)
                  new == Loan(r.store, x, b)
                  gets == w # <<>> /\ x = Head(w)
                  q == old.quantity - (IF x = u THEN 1 ELSE 0)
                                    + (IF gets THEN 1 ELSE 0)
              IN /\ new.quantity = q
                 /\ new.present <=> q > 0
                 /\ (x # u /\ old.present) => new.fecha = old.fecha
                 /\ (x # u /\ ~old.present /\ gets) => new.fecha = DateObj(Today)
         /\ IF w = <<>>
            THEN /\ Avail(r.store, b) = Avail(Store, b) + 1
                 /\ Waitlist(r.store, b) = <<>>
            ELSE /\ Avail(r.store, b) = Avail(Store, b)
                 /\ Waitlist(r.store, b) = Tail(w)

\* A return has just handed the copy to a waiting member who had none: the
\* returning member's record is gone and the promoted member holds a record
\* dated by the return.
C13_Witness ==
  /\ result.op = "return_book" /\ result.kind = "Returned"
  /\ result.msg_auto = "assigned"
  /\ ~Loan(Store, result.user_id, result.book_id).present
  /\ LET p == undo_stack[Len(undo_stack)].autoloan_to_next
     IN /\ p # result.user_id
        /\ Loan(Store, p, result.book_id)
             = [present |-> TRUE, quantity |-> 1, fecha |-> DateObj(Today)]
  /\ Avail(Store, result.book_id) = 0

\* ------------------------------------------------------------ C14
\* C14: when M is already in B's waitlist, borrow_book(M,B,date) leaves the
\* waitlist as it is; and when B also has no copy available it returns the
\* already-queued status and changes nothing: catalog, undo stack and
\* persisted file stay the same.
C14_QueuedBorrowKeepsWaitlist ==
  \A u \in UserIds, b \in BookIds, d \in ProbeDates :
    (Known(Store, u, b) /\ InSeq(u, Waitlist(Store, b))) =>
      LET r == borrow_book(Store, u, b, IsoStr(d))
      IN /\ Waitlist(r.store, b) = Waitlist(Store, b)
         /\ Avail(Store, b) = 0 =>
              /\ r.kind = "AlreadyQueued"
              /\ r.raised = "none"
              /\ r.store = Store

\* A queued member has just asked again for the book and was told it is
\* already in the waitlist.
C14_Witness ==
  /\ result.op = "borrow_book" /\ result.kind = "AlreadyQueued"
  /\ InSeq(result.user_id, Waitlist(Store, result.book_id))
  /\ Avail(Store, result.book_id) = 0

\* ------------------------------------------------------------ C15
\* The ids a call is tried with: the ids of the model and one id of each kind
\* that is never registered.
ProbeUserIds == UserIds \cup {"U999"}
ProbeBookIds == BookIds \cup {"B999"}

\* C15: borrow_book and return_book answer member-not-found for an unknown
\* member id (also when the book id is unknown too) and book-not-found for a
\* known member with an unknown book id, and in these cases change nothing:
\* catalog, waitlists and undo stack (and the file) stay the same.
C15_UnknownIdsRejected ==
  \A u \in ProbeUserIds, b \in ProbeBookIds, d \in ProbeDates :
    \A r \in {borrow_book(Store, u, b, IsoStr(d)), return_book(Store, u, b, Today)} :
      /\ find_user(Store, u) = 0 =>
           r.kind = "UserNotFound" /\ r.raised = "none" /\ r.store = Store
      /\ (find_user(Store, u) # 0 /\ find_book(Store, b) = 0) =>
           r.kind = "BookNotFound" /\ r.raised = "none" /\ r.store = Store

\* A registered member has just tried to return a book that is not in the
\* catalog.
C15_Witness ==
  /\ result.op = "return_book" /\ result.kind = "BookNotFound"
  /\ find_user(Store, result.user_id) # 0
  /\ find_book(Store, result.book_id) = 0

\* ------------------------------------------------------------ C16
\* C16: return_book for a registered member and a catalogued book of which the
\* member holds no loan record answers no-such-loan and changes nothing:
\* copies_available, every loan record, the waitlist (nobody is promoted), the
\* undo stack and the file stay the same.
C16_NoSuchLoanChangesNothing ==
  \A u \in UserIds, b \in BookIds :
    (Known(Store, u, b) /\ ~Loan(Store, u, b).present) =>
      LET r == return_book(Store, u, b, Today)
      IN /\ r.kind = "NoSuchLoan"
         /\ r.raised = "none"
         /\ r.store = Store

\* A member without a loan has just tried to return a book that somebody
\* else is waiting for.
C16_Witness ==
  /\ result.op = "return_book" /\ result.kind = "NoSuchLoan"
  /\ ~Loan(Store, result.user_id, result.book_id).present
  /\ Waitlist(Store, result.book_id) # <<>>

\* ------------------------------------------------------------ C17
\* C17: undo_last on an empty undo stack answers nothing-to-undo and leaves
\* the catalog, the members, every waitlist, the undo stack and the persisted
\* snapshot exactly as they were.
C17_EmptyUndoChangesNothing ==
  undo_stack = <<>> =>
    LET r == undo_last(Store)
    IN /\ r.kind = "NothingToUndo"
       /\ r.raised = "none"
       /\ r.store = Store

\* undo_last has just found the stack empty in a library that has a book
\* with somebody waiting for it.
C17_Witness ==
  /\ result.op = "undo_last" /\ result.kind = "NothingToUndo"
  /\ undo_stack = <<>>
  /\ \E b \in BookIds : find_book(Store, b) # 0 /\ Waitlist(Store, b) # <<>>

\* ------------------------------------------------------------ C18
\* undo_last on the store with entry e on top of its stack leaves the stack
\* that was below e.
PopsOnly(e) ==
  undo_last([Store EXCEPT !.undo_stack = Append(@, e)]).store.undo_stack
    = undo_stack

\* C18: undo_last on a non-empty undo stack removes exactly the top entry and
\* pushes nothing: the stack afterwards is the stack without its last entry,
\* one shorter.  This holds for the entries the program pushed and also for
\* an entry whose reversal fails (unknown member or book, no loan to take
\* back, no free copy, unknown op): the failed entry is not pushed again.
C18_UndoPopsExactlyTop ==
  /\ undo_stack # <<>> =>
       LET r == undo_last(Store)
       IN /\ r.store.undo_stack = SubSeq(undo_stack, 1, Len(undo_stack) - 1)
          /\ Len(r.store.undo_stack) = Len(undo_stack) - 1
  /\ \A u \in ProbeUserIds, b \in ProbeBookIds :
       /\ PopsOnly(BorrowEntry(u, b))
       /\ \A d \in ProbeDates, n \in ProbeUserIds \cup {None} :
            PopsOnly(ReturnEntry(u, b, IsoStr(d), n))
  /\ PopsOnly([op |-> "other"])

\* undo_last has just reversed an entry and older entries are still on the
\* stack.
C18_Witness ==
  /\ result.op = "undo_last"
  /\ result.kind \in {"UndoneBorrow", "UndoneReturn"}
  /\ Len(undo_stack) >= 2

\* ------------------------------------------------------------ C19
\* C19: add_book with an id the catalog already has and add_user with an id
\* already registered answer duplicate-id and leave everything as it was: the
\* existing record keeps its copies_available, its waitlist or its loans, and
\* no second record is inserted.
C19_DuplicateIdChangesNothing ==
  /\ \A id \in BookIds, c \in 0..(MaxCopies + 1) :
       find_book(Store, id) # 0 =>
         LET r == add_book(Store, Book(id, c))
         IN r.kind = "DuplicateBook" /\ r.raised = "none" /\ r.store = Store
  /\ \A id \in UserIds :
       find_user(Store, id) # 0 =>
         LET r == add_user(Store, User(id))
         IN r.kind = "DuplicateUser" /\ r.raised = "none" /\ r.store = Store

\* A book with a copy out on loan and somebody waiting has just been
\* registered a second time.
C19_Witness ==
  /\ result.op = "add_book" /\ result.kind = "DuplicateBook"
  /\ Lent(users, result.book_id) > 0
  /\ Waitlist(Store, result.book_id) # <<>>

\* ------------------------------------------------------------ C20
\* C20: in every reachable state each member holds at most one loan record
\* per book and every stored loan record has quantity >= 1; a record whose
\* quantity reaches 0 is removed by the operation that took the last copy.
C20_OneRecordPerBookQuantityPositive ==
  \A i \in 1..Len(users) :
    /\ \A j, k \in 1..Len(users[i].borrowed) :
         users[i].borrowed[j].book_id = users[i].borrowed[k].book_id => j = k
    /\ \A j \in 1..Len(users[i].borrowed) : users[i].borrowed[j].quantity >= 1

\* A member has just returned their last copy, so their record is gone, and
\* the copy went on to a waiting member who now holds a record.
C20_Witness ==
  /\ result.op = "return_book" /\ result.kind = "Returned"
  /\ ~Loan(Store, result.user_id, result.book_id).present
  /\ \E u \in UserIds : Loan(Store, u, result.book_id).present

\* ------------------------------------------------------------ construction
\* A constructor whose open() of a missing file escapes.
LibraryStore_RequiresFile(f, d) ==
  LET l == _load(f)
      S == [books |-> l.books, users |-> l.users, undo_stack |-> <<>>,
            file |-> f, disk |-> d]
  IN IF f = NoFile
     THEN [Ret(S, "Constructed", 0) EXCEPT !.raised = "FileNotFoundError"]
     ELSE Ret(S, "Constructed", 0)

\* LibraryStore(data_file): empty lists, empty undo stack, then _load, which
\* returns at once when the file is missing and swallows every exception of
\* reading it.  The file itself is left as it is.
LibraryStore(f, d) ==
  LET l == _load(f)
  IN Ret([books |-> l.books, users |-> l.users, undo_stack |-> <<>>,
          file |-> f, disk |-> d], "Constructed", 0)

\* ------------------------------------------------------------ C21
\* C21: constructing a LibraryStore when the data file does not exist does
\* not fail and gives a store with no books, no members and an empty undo
\* stack; the store the machine starts from is that store.
C21_MissingFileGivesEmptyStore ==
  /\ file = NoFile =>
       LET r == LibraryStore(file, disk)
       IN /\ r.raised = "none"
          /\ r.store.books = <<>>
          /\ r.store.users = <<>>
          /\ r.store.undo_stack = <<>>
  /\ result.op = "init" => Store = LibraryStore(NoFile, "ok").store

\* The store has just been constructed with no data file present.
C21_Witness ==
  /\ result.op = "init"
  /\ file = NoFile
  /\ Store = LibraryStore(file, disk).store

\* ------------------------------------------------------------ C22
\* C22: save followed by load is the identity on the catalog: in every
\* reachable state _save completes and loading the snapshot it wrote gives
\* the same books (id, copies_total, copies_available, waitlist in order) and
\* the same members (id and loan records with quantity and date), whatever
\* the file held before.
C22_SaveLoadIdentity ==
  LET w == _save(Store)
      l == LibraryStore(w.store.file, w.store.disk).store
  IN /\ w.raised = "none"
     /\ l.books = books
     /\ l.users = users

\* ------------------------------------------------------------ C23
\* C23: in every reachable state a book's waitlist is non-empty only if its
\* copies_available is 0: nobody is left waiting while a copy is free.
C23_NoWaitingWhileAvailable ==
  \A i \in 1..Len(books) :
    books[i].reservations # <<>> => books[i].copies_available = 0

\* ------------------------------------------------------------ C24
\* C24: in every state reachable from the empty store by add_book, add_user,
\* borrow_book, return_book and undo_last, undo_last on a non-empty stack
\* carries the reversal out: it reaches the undone-loan or undone-return
\* status and never the could-not-undo, no-copy-available or unknown-op
\* status, so a return is never left half reversed (promotion taken back,
\* original borrower not restored).
C24_UndoNeverFails ==
  /\ undo_stack # <<>> =>
       undo_last(Store).kind \in {"UndoneBorrow", "UndoneReturn"}
  /\ result.op = "undo_last" =>
       result.kind \in {"NothingToUndo", "UndoneBorrow", "UndoneReturn"}

\* The return of a copy that had gone on to a waiting member has just been
\* undone: the member is waiting again and the copy is back with the
\* original borrower.
C24_Witness ==
  /\ result.op = "undo_last" /\ result.kind = "UndoneReturn"
  /\ \E b \in BookIds :
       /\ find_book(Store, b) # 0
       /\ Waitlist(Store, b) # <<>>
       /\ Avail(Store, b) = 0

\* ------------------------------------------------------------ a later run
\* library_data.json as an earlier run of the program left it: B001 with two
\* copies, one of them lent to U001 the day before; U002 registered without
\* loans; U003 not registered yet.
SavedFile ==
  [state |-> "json",
   books |-> <<[id |-> "B001", copies_total |-> 2, copies_available |-> 1,
                reservations |-> <<>>]>>,
   users |-> <<[id |-> "U001",
                borrowed |-> <<[book_id |-> "B001", quantity |-> 1,
                                fecha |-> "2024-01-01"]>>],
               [id |-> "U002", borrowed |-> <<>>]>>]

\* The store a new run starts from: loaded catalog, empty undo stack.
Start == LibraryStore(SavedFile, "ok").store

InitLoaded ==
  /\ callers = NoCallers
  /\ books = Start.books
  /\ users = Start.users
  /\ undo_stack = Start.undo_stack
  /\ file = Start.file
  /\ disk = Start.disk
  /\ result = [op |-> "init", user_id |-> None, book_id |-> None,
               kind |-> "none", n |-> 0, msg_auto |-> "", raised |-> "none"]

SpecLoaded == InitLoaded /\ [][Next]_vars

\* undo_last() called until the stack is empty.
RECURSIVE UndoAll(_)
UndoAll(S) ==
  IF S.undo_stack = <<>> THEN S ELSE UndoAll(undo_last(S).store)

\* ------------------------------------------------------------ C25
\* C25: undo entries are reversed newest first and compose: from a start with
\* an empty undo stack, after any sequence of add_book, add_user, borrow_book
\* and return_book calls, calling undo_last until the stack is empty gives
\* back every book's copies_available and every member's loan records
\* (quantity and date) of the start.
C25_UndoAllRestoresStart ==
  LET S == UndoAll(Store)
  IN /\ S.undo_stack = <<>>
     /\ \A b \in BookIds :
          /\ Avail(S, b) = Avail(Start, b)
          /\ \A u \in UserIds : Loan(S, u, b) = Loan(Start, u, b)

\* Three calls are waiting to be undone, the newest a return that handed the
\* copy on to a waiting member, and the loans differ from the start.
C25_Witness ==
  /\ Len(undo_stack) >= 3
  /\ undo_stack[Len(undo_stack)].op = "return"
  /\ undo_stack[Len(undo_stack)].autoloan_to_next # None
  /\ \E i \in 1..Len(undo_stack) : undo_stack[i].op = "borrow"
  /\ \E u \in UserIds, b \in BookIds : Loan(Store, u, b) # Loan(Start, u, b)

\* ------------------------------------------------------------ C26
\* C26: the entry pushed by a return_book(M,B) that passes validation records
\* M, B, the date M's loan record for B had before the return, and as
\* promoted member the member taken from the waitlist head exactly when that
\* member received a copy, and no member otherwise.
C26_ReturnEntryContents ==
  \A u \in UserIds, b \in BookIds :
    LET r == return_book(Store, u, b, Today)
        w == Waitlist(Store, b)
        e == r.store.undo_stack[Len(r.store.undo_stack)]
        got == /\ w # <<>>
               /\ Loan(r.store, Head(w), b).quantity
                    = Loan(Store, Head(w), b).quantity
                      + 1 - (IF Head(w) = u THEN 1 ELSE 0)
    IN r.kind = "Returned" =>
         /\ r.store.undo_stack = Append(undo_stack, e)
         /\ e.op = "return"
         /\ e.user_id = u
         /\ e.book_id = b
         /\ e.fecha = Loan(Store, u, b).fecha
         /\ e.autoloan_to_next = (IF got THEN Head(w) ELSE None)

\* A return has just handed the copy to a waiting member and the entry on
\* top of the stack names both members and carries the loan's date, not the
\* day of the return.
C26_Witness ==
  /\ result.op = "return_book" /\ result.kind = "Returned"
  /\ undo_stack # <<>>
  /\ undo_stack[Len(undo_stack)].op = "return"
  /\ undo_stack[Len(undo_stack)].user_id = result.user_id
  /\ undo_stack[Len(undo_stack)].autoloan_to_next \in UserIds \ {result.user_id}
  /\ undo_stack[Len(undo_stack)].fecha # IsoStr(Today)

\* ------------------------------------------------------------ C27
\* The store with an id that is no member's at the head of book_id's
\* waitlist.
WithStaleHead(S, book_id) ==
  [S EXCEPT !.books[find_book(S, book_id)].reservations = <<"U999">> \o @]

\* C27: if return_book finds at the waitlist head an id that is not a
\* member's, that id is removed from the waitlist and not queued again, no
\* loan is created (the members waiting behind it are not promoted either),
\* copies_available stays incremented by 1, and the pushed return entry
\* carries no promoted member.
C27_MissingHeadDiscarded ==
  \A u \in UserIds, b \in BookIds :
    (Known(Store, u, b) /\ Loan(Store, u, b).present) =>
      LET r == return_book(WithStaleHead(Store, b), u, b, Today)
          e == r.store.undo_stack[Len(r.store.undo_stack)]
      IN /\ r.kind = "Returned" /\ r.msg_auto = "missing"
         /\ Waitlist(r.store, b) = Waitlist(Store, b)
         /\ Avail(r.store, b) = Avail(Store, b) + 1
         /\ r.n = Avail(Store, b) + 1
         /\ Len(r.store.users) = Len(users)
         /\ \A x \in UserIds :
              Loan(r.store, x, b).quantity
                = Loan(Store, x, b).quantity - (IF x = u THEN 1 ELSE 0)
         /\ r.store.undo_stack = Append(undo_stack, e)
         /\ e.op = "return" /\ e.user_id = u /\ e.autoloan_to_next = None

\* A member holds a copy of a book that others are waiting for; with an
\* unknown id ahead of them a return reports the missing member.
C27_Witness ==
  \E u \in UserIds, b \in BookIds :
    /\ Known(Store, u, b) /\ Loan(Store, u, b).present
    /\ Waitlist(Store, b) # <<>>
    /\ return_book(WithStaleHead(Store, b), u, b, Today).msg_auto = "missing"

\* ------------------------------------------------------------ the UI path
\* The text of the "Copias totales" field, as a sequence of characters.
DigitChars == <<"0", "1", "2", "3", "4", "5", "6", "7", "8", "9">>

IsDigit(c) == \E i \in 1..Len(DigitChars) : DigitChars[i] = c

DigitVal(c) == (CHOOSE i \in 1..Len(DigitChars) : DigitChars[i] = c) - 1

RECURSIVE Digits(_)
Digits(t) ==
  IF t = <<>> THEN 0
  ELSE 10 * Digits(SubSeq(t, 1, Len(t) - 1)) + DigitVal(t[Len(t)])

\* int(text) on a decimal literal with an optional minus sign; anything else
\* raises ValueError.
ParseInt(t) ==
  LET neg == t # <<>> /\ t[1] = "-"
      body == IF neg THEN Tail(t) ELSE t
  IN IF body # <<>> /\ \A i \in 1..Len(body) : IsDigit(body[i])
     THEN [ok |-> TRUE, value |-> IF neg THEN 0 - Digits(body) ELSE Digits(body)]
     ELSE [ok |-> FALSE, value |-> 0]

\* The texts typed into the field: every count up to MaxCopies, a negative
\* count, an empty field and a word.
CopiesTexts ==
  {<<DigitChars[i]>> : i \in 1..(MaxCopies + 1)}
    \cup {<<"-", "1">>, <<>>, <<"x">>}

\* on_add_book: both numbers must parse, then the book is handed to add_book
\* as typed.
OnAddBook ==
  \E id \in BookIds, t \in CopiesTexts :
    LET c == ParseInt(t)
        r == IF c.ok THEN add_book(Store, Book(id, c.value))
             ELSE Ret(Store, "NotAnInteger", 0)
    IN /\ Bounded(r.store)
       /\ Call("on_add_book", None, id, r)

NextUI == OnAddBook \/ AddUser \/ BorrowBook \/ ReturnBook \/ UndoLast

SpecUI == Init /\ [][NextUI]_vars

\* ------------------------------------------------------------ C28
\* C28: every book in the catalog has copies_total >= 0, also when it was
\* registered through on_add_book, which accepts any text that parses as an
\* integer.
C28_CopiesTotalNonNegative ==
  \A i \in 1..Len(books) : books[i].copies_total >= 0

\* ------------------------------------------------------------ C29
UniqueIds ==
  /\ \A i, j \in 1..Len(books) : books[i].id = books[j].id => i = j
  /\ \A i, j \in 1..Len(users) : users[i].id = users[j].id => i = j

\* Across one step: every record is still there under its id, a book keeps
\* its copies_total, and only add_book / add_user make the lists longer.
CatalogKept ==
  /\ Len(books') >= Len(books)
  /\ Len(users') >= Len(users)
  /\ \A i \in 1..Len(books) :
       /\ books'[i].id = books[i].id
       /\ books'[i].copies_total = books[i].copies_total
  /\ \A i \in 1..Len(users) : users'[i].id = users[i].id
  /\ result'.op \in {"borrow_book", "return_book", "undo_last"} =>
       Len(books') = Len(books) /\ Len(users') = Len(users)

\* C29: in every reachable state no two books share an id and no two members
\* share an id; and across any operation the book ids and the member ids
\* never shrink, each existing book keeps its id and its copies_total, and
\* borrow_book, return_book and undo_last neither add nor remove records.
C29_IdsUniqueAndStable == []UniqueIds /\ [][CatalogKept]_vars

\* A registered member has just been offered again while the catalog has a
\* book and at least two members, one of them holding a copy.
C29_Witness ==
  /\ result.op = "add_user" /\ result.kind = "DuplicateUser"
  /\ Len(users) >= 2 /\ Len(books) >= 1
  /\ \E u \in UserIds, b \in BookIds : Loan(Store, u, b).present

\* ------------------------------------------------------------ C30
\* C30: in every state reachable from the empty catalog every id in a book's
\* waitlist is a registered member's, every loan record is for a registered
\* book, and every member id and book id kept in an undo entry, the promoted
\* member's included, is a registered one.
C30_ReferencesResolve ==
  /\ \A i \in 1..Len(books) : \A k \in 1..Len(books[i].reservations) :
       find_user(Store, books[i].reservations[k]) # 0
  /\ \A i \in 1..Len(users) : \A j \in 1..Len(users[i].borrowed) :
       find_book(Store, users[i].borrowed[j].book_id) # 0
  /\ \A k \in 1..Len(undo_stack) :
       /\ find_user(Store, undo_stack[k].user_id) # 0
       /\ find_book(Store, undo_stack[k].book_id) # 0
       /\ (undo_stack[k].op = "return" /\ undo_stack[k].autoloan_to_next # None)
            => find_user(Store, undo_stack[k].autoloan_to_next) # 0

\* A member is waiting, another holds a copy it was promoted to, and the
\* stack holds a loan entry and a return entry that names the promoted
\* member.
C30_Witness ==
  /\ \E b \in BookIds : find_book(Store, b) # 0 /\ Waitlist(Store, b) # <<>>
  /\ \E k \in 1..Len(undo_stack) : undo_stack[k].op = "borrow"
  /\ \E k \in 1..Len(undo_stack) :
       /\ undo_stack[k].op = "return"
       /\ undo_stack[k].autoloan_to_next # None
       /\ \E b \in BookIds :
            Loan(Store, undo_stack[k].autoloan_to_next, b).present

\* ------------------------------------------------------------ C31
\* A second title next to the one the machine works on.
TwoBooks == BookIds \cup {"B002"}

\* The store after B002 is registered with one copy and asked for by x and
\* then by y (three calls of the methods themselves); the claim is checked
\* with the first two members in these roles.
WithSecondBook(S, x, y) ==
  LET S1 == add_book(S, Book("B002", 1)).store
      S2 == borrow_book(S1, x, "B002", IsoStr(Today)).store
  IN borrow_book(S2, y, "B002", IsoStr(Today)).store

\* From store P to store R nothing changed except book b and the loan
\* records for b of the members in touched.
FrameKept(P, R, b, touched) ==
  /\ Len(R.books) = Len(P.books)
  /\ Len(R.users) = Len(P.users)
  /\ \A i \in 1..Len(P.books) : P.books[i].id # b => R.books[i] = P.books[i]
  /\ \A i \in 1..Len(P.users) :
       /\ P.users[i].id \notin touched => R.users[i] = P.users[i]
       /\ \A b2 \in TwoBooks \ {b} :
            Loan(R, P.users[i].id, b2) = Loan(P, P.users[i].id, b2)

\* The members an undo entry names.
Named(e) ==
  {e.user_id} \cup (IF e.op = "return" THEN {e.autoloan_to_next} ELSE {})

\* undo_last on P changes only the book and the members of the entry it pops.
UndoFrameKept(P) ==
  P.undo_stack # <<>> =>
    LET e == P.undo_stack[Len(P.undo_stack)]
    IN FrameKept(P, undo_last(P).store, e.book_id, Named(e))

\* C31: borrow_book(M,B) and return_book(M,B) leave unchanged the
\* copies_available and waitlist of every book other than B, every loan
\* record for books other than B, and the loan records of every member other
\* than M and, for a return, the promoted member; undo_last changes only the
\* book and the members named in the entry it pops.
C31_OnlyNamedRecordsChange ==
  LET P == WithSecondBook(Store, "U001", "U002")
  IN /\ UndoFrameKept(P)
     /\ \A u \in UserIds, b \in TwoBooks :
          LET rb == borrow_book(P, u, b, IsoStr(Today))
              rr == return_book(P, u, b, Today)
              promoted ==
                IF rr.kind = "Returned"
                THEN {rr.store.undo_stack[Len(rr.store.undo_stack)].autoloan_to_next}
                ELSE {}
          IN /\ FrameKept(P, rb.store, b, {u})
             /\ FrameKept(P, rr.store, b, {u} \cup promoted)
             /\ UndoFrameKept(rb.store)
             /\ UndoFrameKept(rr.store)

\* U002 holds the first title with U001 waiting for it, and once they ask
\* for the second title U001 holds it with U002 waiting.
C31_Witness ==
  LET P == WithSecondBook(Store, "U001", "U002")
  IN /\ Loan(P, "U001", "B002").present
     /\ Waitlist(P, "B002") = <<"U002">>
     /\ \E b \in BookIds :
          /\ Loan(P, "U002", b).present
          /\ Waitlist(P, b) # <<>>
          /\ InSeq("U001", Waitlist(P, b))

\* ------------------------------------------------------------ C32
\* C32: a book newly registered by add_book starts with copies_available
\* equal to its copies_total and an empty waitlist, and a newly registered
\* member starts with no loan records; the records already there are kept.
C32_NewRecordsStartClean ==
  /\ \A id \in TwoBooks, c \in 0..(MaxCopies + 1) :
       find_book(Store, id) = 0 =>
         LET r == add_book(Store, Book(id, c))
             n == Len(r.store.books)
         IN /\ r.kind = "BookAdded"
            /\ n = Len(books) + 1
            /\ SubSeq(r.store.books, 1, n - 1) = books
            /\ r.store.books[n].id = id
            /\ r.store.books[n].copies_total = c
            /\ r.store.books[n].copies_available = c
            /\ r.store.books[n].reservations = <<>>
            /\ r.store.users = users
            /\ r.store.undo_stack = undo_stack
  /\ \A id \in ProbeUserIds :
       find_user(Store, id) = 0 =>
         LET r == add_user(Store, User(id))
             n == Len(r.store.users)
         IN /\ r.kind = "UserAdded"
            /\ n = Len(users) + 1
            /\ SubSeq(r.store.users, 1, n - 1) = users
            /\ r.store.users[n].id = id
            /\ r.store.users[n].borrowed = <<>>
            /\ r.store.books = books
            /\ r.store.undo_stack = undo_stack

\* A member has just been registered, with no loans, next to a member who
\* holds a copy of a book that started with two.
C32_Witness ==
  /\ result.op = "add_user" /\ result.kind = "UserAdded"
  /\ users[Len(users)].id = result.user_id
  /\ users[Len(users)].borrowed = <<>>
  /\ \E u \in UserIds, b \in BookIds :
       Loan(Store, u, b).present /\ books[find_book(Store, b)].copies_total = 2

\* ------------------------------------------------------------ C33
\* C33: the undo stack is not persisted: a new LibraryStore built from the
\* saved file has the catalog with its loans and waitlists but an empty undo
\* stack, so undo_last reports nothing to undo and changes nothing: what was
\* done before the restart can no longer be reversed.
C33_RestartKeepsCatalogDropsUndo ==
  LET R == LibraryStore(file, disk).store
  IN /\ R.books = books
     /\ R.users = users
     /\ R.undo_stack = <<>>
     /\ undo_last(R).kind = "NothingToUndo"
     /\ undo_last(R).store = R

\* ------------------------------------------------------------ src/prueba.py
\* The list-based LibraryStore of src/prueba.py: a member's borrowed is a
\* list of book ids, one occurrence per copy; nothing is persisted.  Each
\* method gives the store it leaves and the status it returns.
prueba_Ret(L, kind, n, msg_auto) ==
  [store |-> L, kind |-> kind, n |-> n, msg_auto |-> msg_auto,
   raised |-> "none"]

prueba_LibraryStore == [books |-> <<>>, users |-> <<>>, undo_stack |-> <<>>]

prueba_add_book(L, book) ==
  IF find_book(L, book.id) # 0 THEN prueba_Ret(L, "DuplicateBook", 0, "")
  ELSE prueba_Ret([L EXCEPT !.books = Append(@, book)], "BookAdded", 0, "")

prueba_add_user(L, user) ==
  IF find_user(L, user.id) # 0 THEN prueba_Ret(L, "DuplicateUser", 0, "")
  ELSE prueba_Ret([L EXCEPT !.users = Append(@, user)], "UserAdded", 0, "")

prueba_borrow_book(L, user_id, book_id) ==
  LET ui == find_user(L, user_id)
      bi == find_book(L, book_id)
  IN IF ui = 0 THEN prueba_Ret(L, "UserNotFound", 0, "")
     ELSE IF bi = 0 THEN prueba_Ret(L, "BookNotFound", 0, "")
     ELSE IF L.books[bi].copies_available > 0
     THEN LET L1 == [L EXCEPT
                       !.books[bi].copies_available = @ - 1,
                       !.users[ui].borrowed = Append(@, L.books[bi].id),
                       !.undo_stack = Append(@, BorrowEntry(user_id, book_id))]
          IN prueba_Ret(L1, "Loaned", L1.books[bi].copies_available, "")
     ELSE IF InSeq(user_id, L.books[bi].reservations)
     THEN prueba_Ret(L, "AlreadyQueued", 0, "")
     ELSE LET L1 == [L EXCEPT !.books[bi].reservations = Append(@, user_id)]
          IN prueba_Ret(L1, "Queued", Len(L1.books[bi].reservations), "")

\* The entry of prueba.py's return_book: no fecha.
prueba_ReturnEntry(user_id, book_id, autoloan_to_next) ==
  [op |-> "return", user_id |-> user_id, book_id |-> book_id,
   autoloan_to_next |-> autoloan_to_next]

prueba_return_book(L, user_id, book_id) ==
  LET ui == find_user(L, user_id)
      bi == find_book(L, book_id)
  IN IF ui = 0 THEN prueba_Ret(L, "UserNotFound", 0, "")
     ELSE IF bi = 0 THEN prueba_Ret(L, "BookNotFound", 0, "")
     ELSE IF ~InSeq(book_id, L.users[ui].borrowed)
     THEN prueba_Ret(L, "NoSuchLoan", 0, "")
     ELSE LET L1 == [L EXCEPT
                       !.users[ui].borrowed = ListRemove(@, book_id),
                       !.books[bi].copies_available = @ + 1]
              w == L1.books[bi].reservations
              next_user_id == Head(w)
              L2 == [L1 EXCEPT !.books[bi].reservations = Tail(@)]
              ni == find_user(L2, next_user_id)
              L3 == IF w = <<>> THEN L1
                    ELSE IF ni # 0
                    THEN [L2 EXCEPT
                            !.books[bi].copies_available = @ - 1,
                            !.users[ni].borrowed = Append(@, L.books[bi].id)]
                    ELSE L2
              autoloan_to_next == IF w # <<>> /\ ni # 0 THEN next_user_id ELSE None
              msg_auto == IF w = <<>> THEN ""
                          ELSE IF ni # 0 THEN "assigned" ELSE "missing"
              L4 == [L3 EXCEPT !.undo_stack =
                       Append(@, prueba_ReturnEntry(user_id, book_id,
                                                    autoloan_to_next))]
          IN prueba_Ret(L4, "Returned", L4.books[bi].copies_available, msg_auto)

prueba_undo_last(L) ==
  IF L.undo_stack = <<>> THEN prueba_Ret(L, "NothingToUndo", 0, "")
  ELSE
    LET last == L.undo_stack[Len(L.undo_stack)]
        L0 == [L EXCEPT !.undo_stack = SubSeq(@, 1, Len(@) - 1)]
        ui == find_user(L0, last.user_id)
        bi == find_book(L0, last.book_id)
    IN IF last.op = "borrow"
       THEN IF ui # 0 /\ bi # 0 /\ InSeq(L0.books[bi].id, L0.users[ui].borrowed)
            THEN prueba_Ret([L0 EXCEPT
                               !.users[ui].borrowed = ListRemove(@, L0.books[bi].id),
                               !.books[bi].copies_available = @ + 1],
                            "UndoneBorrow", 0, "")
            ELSE prueba_Ret(L0, "UndoBorrowFailed", 0, "")
       ELSE IF last.op = "return"
       THEN IF ui = 0 \/ bi = 0 THEN prueba_Ret(L0, "UndoReturnFailed", 0, "")
            ELSE
              LET next_user_id == last.autoloan_to_next
                  ni == IF next_user_id # None /\ next_user_id # ""
                        THEN find_user(L0, next_user_id) ELSE 0
                  L1 == IF ni # 0 /\ InSeq(L0.books[bi].id, L0.users[ni].borrowed)
                        THEN [L0 EXCEPT
                                !.users[ni].borrowed = ListRemove(@, L0.books[bi].id),
                                !.books[bi].reservations = <<next_user_id>> \o @,
                                !.books[bi].copies_available = @ + 1]
                        ELSE L0
              IN IF L1.books[bi].copies_available > 0
                 THEN prueba_Ret([L1 EXCEPT
                                    !.books[bi].copies_available = @ - 1,
                                    !.users[ui].borrowed = Append(@, L1.books[bi].id)],
                                 "UndoneReturn", 0, "")
                 ELSE prueba_Ret(L1, "UndoNoCopy", 0, "")
       ELSE prueba_Ret(L0, "UnknownOp", 0, "")

\* ------------------------------------------------------------ C34
Count(s, x) == Cardinality({i \in 1..Len(s) : s[i] = x})

RECURSIVE Repeat(_, _)
Repeat(x, n) == IF n <= 0 THEN <<>> ELSE <<x>> \o Repeat(x, n - 1)

RECURSIVE Flatten(_)
Flatten(borrowed) ==
  IF borrowed = <<>> THEN <<>>
  ELSE Repeat(Head(borrowed).book_id, Head(borrowed).quantity)
         \o Flatten(Tail(borrowed))

\* The list-based store that stands for the quantity-and-date store S: one
\* occurrence of the book id per lent copy, entries without the date.
Abs(S) ==
  [books |-> S.books,
   users |-> [i \in 1..Len(S.users) |->
                [id |-> S.users[i].id, borrowed |-> Flatten(S.users[i].borrowed)]],
   undo_stack |-> [k \in 1..Len(S.undo_stack) |->
                     IF S.undo_stack[k].op = "return"
                     THEN prueba_ReturnEntry(S.undo_stack[k].user_id,
                                             S.undo_stack[k].book_id,
                                             S.undo_stack[k].autoloan_to_next)
                     ELSE S.undo_stack[k]]]

\* List store L and quantity store S agree: same books with the same
\* copies_available and waitlist, same members, and as many occurrences of a
\* book id in a member's list as the quantity of the member's record.
Matches(L, S) ==
  /\ L.books = S.books
  /\ Len(L.users) = Len(S.users)
  /\ \A i \in 1..Len(S.users) :
       /\ L.users[i].id = S.users[i].id
       /\ \A b \in TwoBooks :
            Count(L.users[i].borrowed, b) = Loan(S, S.users[i].id, b).quantity
  /\ L.undo_stack = Abs(S).undo_stack

\* What the caller gets back: the status, or the exception.
Outcome(r) == IF r.raised = "none" THEN r.kind ELSE r.raised

\* One call made on both stores from agreeing states: l on the list store,
\* r on the quantity store.
SameStep(l, r) ==
  /\ Outcome(l) = Outcome(r)
  /\ l.n = r.n
  /\ l.msg_auto = r.msg_auto
  /\ Matches(l.store, r.store)

\* C34: the list-based store and the quantity-and-date store, driven by the
\* same calls, return the same kind of status after every step and have the
\* same copies_available and waitlist per book, with as many occurrences of
\* a book id in a member's list as the quantity of the member's loan record.
C34_VariantsAgree ==
  LET L == Abs(Store)
  IN /\ Matches(L, Store)
     /\ \A id \in BookIds, c \in 0..MaxCopies :
          SameStep(prueba_add_book(L, Book(id, c)), add_book(Store, Book(id, c)))
     /\ \A id \in UserIds :
          SameStep(prueba_add_user(L, User(id)), add_user(Store, User(id)))
     /\ \A u \in UserIds, b \in BookIds, d \in Dates :
          SameStep(prueba_borrow_book(L, u, b), borrow_book(Store, u, b, IsoStr(d)))
     /\ \A u \in UserIds, b \in BookIds :
          SameStep(prueba_return_book(L, u, b), return_book(Store, u, b, Today))
     /\ SameStep(prueba_undo_last(L), undo_last(Store))

\* ------------------------------------------------------------ C35
RECURSIVE OldBorrowed(_)
OldBorrowed(borrowed) ==
  IF borrowed = <<>> THEN <<>>
  ELSE Repeat(OldItem(Head(borrowed).book_id), Head(borrowed).quantity)
         \o OldBorrowed(Tail(borrowed))

\* The snapshot of the same catalog in the old format: each member's
\* borrowed is a list of bare book ids, one per copy.
OldFormat(f) ==
  [f EXCEPT !.users =
     [i \in 1..Len(f.users) |->
        [id |-> f.users[i].id, borrowed |-> OldBorrowed(f.users[i].borrowed)]]]

\* C35: a store saved in the old format (bare book ids in borrowed) loads
\* with all its books and all its members, each entry turned into a loan
\* record for that book, and copies_available plus the lent quantities equals
\* copies_total for every loaded book.
C35_OldFormatLoads ==
  file.state = "json" =>
    LET R == LibraryStore(OldFormat(file), disk).store
    IN /\ Len(R.books) = Len(file.books)
       /\ Len(R.users) = Len(file.users)
       /\ \A i \in 1..Len(R.users) :
            /\ R.users[i].id = file.users[i].id
            /\ \A b \in BookIds :
                 SumQuantity(R.users[i].borrowed, b)
                   = SumQuantity(file.users[i].borrowed, b)
       /\ \A i \in 1..Len(R.books) :
            R.books[i].copies_available + Lent(R.users, R.books[i].id)
              = R.books[i].copies_total

\* ------------------------------------------------------------ seed data
\* "a; b" for two calls that end in _save: b runs only if a did not raise.
Then(r, next_kind, S2) ==
  IF r.raised # "none" THEN r ELSE [S2 EXCEPT !.kind = next_kind]

\* seed_if_empty that adds the samples whatever the catalog holds.
seed_if_empty_Always(S) ==
  LET r1 == add_book(S, Book("B001", 2))
      r2 == Then(r1, "Seeded", add_book(r1.store, Book("B002", 1)))
      r3 == Then(r2, "Seeded", add_user(r2.store, User("U001")))
  IN Then(r3, "Seeded", add_user(r3.store, User("U002")))

\* seed_if_empty: with no books and no members, two add_book and two
\* add_user calls in this order; otherwise nothing.
seed_if_empty(S) ==
  IF S.books = <<>> /\ S.users = <<>>
  THEN LET r1 == add_book(S, Book("B001", 2))
           r2 == Then(r1, "Seeded", add_book(r1.store, Book("B002", 1)))
           r3 == Then(r2, "Seeded", add_user(r2.store, User("U001")))
       IN Then(r3, "Seeded", add_user(r3.store, User("U002")))
  ELSE Ret(S, "NotEmpty", 0)

SeedIfEmpty ==
  /\ Bounded(seed_if_empty(Store).store)
  /\ Call("seed_if_empty", None, None, seed_if_empty(Store))

NextSeeded ==
  \/ SeedIfEmpty
  \/ AddBook \/ AddUser \/ BorrowBook \/ ReturnBook \/ UndoLast

SpecSeeded == Init /\ [][NextSeeded]_vars

\* ------------------------------------------------------------ C36
\* C36: seed_if_empty registers exactly the two sample books (B001 with 2
\* copies, B002 with 1 copy) and the two sample members (U001, U002) when the
\* catalog has no books and no members, and changes nothing otherwise; a
\* second call has no effect, and it never pushes an undo entry.
C36_SeedOnlyWhenEmpty ==
  LET r == seed_if_empty(Store)
  IN /\ r.raised = "none"
     /\ IF books = <<>> /\ users = <<>>
        THEN /\ r.store.books = <<Book("B001", 2), Book("B002", 1)>>
             /\ r.store.users = <<User("U001"), User("U002")>>
        ELSE r.store = Store
     /\ r.store.undo_stack = undo_stack
     /\ seed_if_empty(r.store).store = r.store

\* The samples have just been seeded into an empty catalog.
C36_Witness ==
  /\ result.op = "seed_if_empty" /\ result.kind = "Seeded"
  /\ Len(books) = 2 /\ Len(users) = 2
  /\ undo_stack = <<>>
  /\ file = Snapshot(Store)

\* ------------------------------------------------------------ two callers
\* borrow_book and return_book run by two callers on one store, one call
\* each, one read or write of copies_available, of a loan record or of the
\* waitlist at a time.
\* A caller between two steps holds what the method's local variables hold:
\* the positions of its user and book, the value it last read (tmp), and a
\* reference to one loan record (the member ru's record k).  A record that
\* another caller removes from the list meanwhile stays alive for the holder
\* (det), with the quantity it had (obj_q); writes to it no longer reach the
\* list.
Callers == {1, 2}

IdleCaller ==
  [pc |-> "idle", op |-> "none", user_id |-> None, book_id |-> None,
   fecha |-> IsoStr(""), ui |-> 0, bi |-> 0, tmp |-> 0,
   ru |-> 0, k |-> 0, det |-> FALSE, obj_q |-> 0,
   item_fecha |-> IsoStr(""), next_user_id |-> None,
   autoloan_to_next |-> None, msg_auto |-> ""]

\* The step leaves the caller inside the method ...
Goes(S, c, pc) ==
  [store |-> S, me |-> [c EXCEPT !.pc = pc], removed |-> <<0, 0, 0>>,
   done |-> FALSE, kind |-> "none", n |-> 0, raised |-> "none"]

\* ... or is the method's return (or the exception that leaves it).
Leaves(S, c, kind, n, raised) ==
  [store |-> S, me |-> c, removed |-> <<0, 0, 0>>,
   done |-> TRUE, kind |-> kind, n |-> n, raised |-> raised]

LeavesSaved(S, c, kind, bi) ==
  LET w == _save(S)
  IN Leaves(w.store, c, kind, w.store.books[bi].copies_available, w.raised)

\* The loan record the caller holds: its quantity, and a write to it.
RefQuantity(S, c) ==
  IF c.det THEN c.obj_q ELSE S.users[c.ru].borrowed[c.k].quantity

RefWrite(S, c, q, pc) ==
  IF c.det
  THEN Goes(S, [c EXCEPT !.obj_q = q], pc)
  ELSE Goes([S EXCEPT !.users[c.ru].borrowed[c.k].quantity = q], c, pc)

\* "for bb in <member>.borrowed: if bb.book_id == book_id" run to its end.
RefScan(S, c, ru, found_pc, missing_pc) ==
  LET k == FindBorrowed(S.users[ru].borrowed, c.book_id)
  IN IF k # 0
     THEN Goes(S, [c EXCEPT !.ru = ru, !.k = k, !.det = FALSE, !.obj_q = 0],
               found_pc)
     ELSE Goes(S, c, missing_pc)

NoRef(c) == [c EXCEPT !.ru = 0, !.k = 0, !.det = FALSE, !.obj_q = 0, !.tmp = 0]

\* One step of borrow_book (lines 170-193) from the position c.pc.
BorrowStep(S, c) ==
  LET book == S.books[c.bi]
  IN CASE c.pc = "b_check" ->
            IF book.copies_available > 0
            THEN Goes(S, c, "b_read_avail") ELSE Goes(S, c, "q_check")
       [] c.pc = "b_read_avail" ->
            Goes(S, [c EXCEPT !.tmp = book.copies_available], "b_write_avail")
       [] c.pc = "b_write_avail" ->
            Goes([S EXCEPT !.books[c.bi].copies_available = c.tmp - 1],
                 c, "b_scan")
       [] c.pc = "b_scan" ->
            RefScan(S, c, c.ui, "b_read_qty", "b_append")
       [] c.pc = "b_read_qty" ->
            Goes(S, [c EXCEPT !.tmp = RefQuantity(S, c)], "b_write_qty")
       [] c.pc = "b_write_qty" ->
            RefWrite(S, c, c.tmp + 1, "b_push")
       [] c.pc = "b_append" ->
            Goes([S EXCEPT !.users[c.ui].borrowed =
                              Append(@, BorrowedBook(c.book_id, c.fecha))],
                 c, "b_push")
       [] c.pc = "b_push" ->
            Goes([S EXCEPT !.undo_stack =
                              Append(@, BorrowEntry(c.user_id, c.book_id))],
                 NoRef(c), "b_save")
       [] c.pc = "b_save" ->
            LeavesSaved(S, c, "Loaned", c.bi)
       [] c.pc = "q_check" ->
            IF InSeq(c.user_id, book.reservations)
            THEN Leaves(S, c, "AlreadyQueued", 0, "none")
            ELSE Goes(S, c, "q_append")
       [] c.pc = "q_append" ->
            Goes([S EXCEPT !.books[c.bi].reservations = Append(@, c.user_id)],
                 c, "q_save")
       [] c.pc = "q_save" ->
            LET w == _save(S)
            IN Leaves(w.store, c, "Queued",
                      Len(w.store.books[c.bi].reservations), w.raised)

\* "user.borrowed.remove(borrowed_item)": the first record equal to the one
\* held goes; ValueError when the list holds no equal record.
RemoveStep(S, c) ==
  LET borrowed == S.users[c.ui].borrowed
      item == [book_id |-> c.book_id, fecha |-> c.item_fecha,
               quantity |-> RefQuantity(S, c)]
      idx == First({j \in 1..Len(borrowed) : borrowed[j] = item})
  IN IF idx = 0
     THEN Leaves(S, c, "none", 0, "ValueError")
     ELSE [Goes([S EXCEPT !.users[c.ui].borrowed = RemoveAt(@, idx)],
                NoRef(c), "r_read_avail")
             EXCEPT !.removed = <<c.ui, idx, item.quantity>>]

\* "autoloan_to_next = next_user_id" and the message that goes with it.
Assigned(c) ==
  [c EXCEPT !.autoloan_to_next = c.next_user_id, !.msg_auto = "assigned"]

\* One step of return_book (lines 202-242) from the position c.pc.
ReturnStep(S, c) ==
  LET book == S.books[c.bi]
  IN CASE c.pc = "r_scan" ->
            LET k == FindBorrowed(S.users[c.ui].borrowed, c.book_id)
            IN IF k = 0
               THEN Leaves(S, c, "NoSuchLoan", 0, "none")
               ELSE Goes(S, [c EXCEPT
                               !.ru = c.ui, !.k = k,
                               !.item_fecha = S.users[c.ui].borrowed[k].fecha],
                         "r_read_qty")
       [] c.pc = "r_read_qty" ->
            Goes(S, [c EXCEPT !.tmp = RefQuantity(S, c)], "r_write_qty")
       [] c.pc = "r_write_qty" ->
            RefWrite(S, c, c.tmp - 1, "r_check_qty")
       [] c.pc = "r_check_qty" ->
            IF RefQuantity(S, c) <= 0
            THEN Goes(S, c, "r_remove")
            ELSE Goes(S, NoRef(c), "r_read_avail")
       [] c.pc = "r_remove" ->
            RemoveStep(S, c)
       [] c.pc = "r_read_avail" ->
            Goes(S, [c EXCEPT !.tmp = book.copies_available], "r_write_avail")
       [] c.pc = "r_write_avail" ->
            Goes([S EXCEPT !.books[c.bi].copies_available = c.tmp + 1],
                 [c EXCEPT !.tmp = 0], "r_wait_check")
       [] c.pc = "r_wait_check" ->
            IF book.reservations # <<>>
            THEN Goes(S, c, "r_popleft") ELSE Goes(S, c, "r_push")
       [] c.pc = "r_popleft" ->
            IF book.reservations = <<>>
            THEN Leaves(S, c, "none", 0, "IndexError")
            ELSE LET next_user_id == Head(book.reservations)
                     S1 == [S EXCEPT !.books[c.bi].reservations = Tail(@)]
                 IN IF find_user(S1, next_user_id) # 0
                    THEN Goes(S1, [c EXCEPT !.next_user_id = next_user_id],
                              "p_read_avail")
                    ELSE Goes(S1, [c EXCEPT !.msg_auto = "missing"], "r_push")
       [] c.pc = "p_read_avail" ->
            Goes(S, [c EXCEPT !.tmp = book.copies_available], "p_write_avail")
       [] c.pc = "p_write_avail" ->
            Goes([S EXCEPT !.books[c.bi].copies_available = c.tmp - 1],
                 c, "p_scan")
       [] c.pc = "p_scan" ->
            RefScan(S, c, find_user(S, c.next_user_id),
                    "p_read_qty", "p_append")
       [] c.pc = "p_read_qty" ->
            Goes(S, [c EXCEPT !.tmp = RefQuantity(S, c)], "p_write_qty")
       [] c.pc = "p_write_qty" ->
            RefWrite(S, Assigned(c), c.tmp + 1, "r_push")
       [] c.pc = "p_append" ->
            Goes([S EXCEPT !.users[find_user(S, c.next_user_id)].borrowed =
                              Append(@, BorrowedBook(c.book_id,
                                                     DateObj(Today)))],
                 Assigned(c), "r_push")
       [] c.pc = "r_push" ->
            Goes([S EXCEPT !.undo_stack =
                    Append(@, ReturnEntry(c.user_id, c.book_id, c.item_fecha,
                                          c.autoloan_to_next))],
                 NoRef(c), "r_save")
       [] c.pc = "r_save" ->
            LeavesSaved(S, c, "Returned", c.bi)

Advance(S, c) ==
  IF c.op = "borrow_book" THEN BorrowStep(S, c) ELSE ReturnStep(S, c)

\* What another caller's list.remove does to the reference a caller holds.
Detach(c, removed) ==
  IF c.k = 0 \/ c.det \/ c.ru # removed[1] THEN c
  ELSE IF c.k = removed[2]
       THEN [c EXCEPT !.det = TRUE, !.obj_q = removed[3]]
  ELSE IF c.k > removed[2] THEN [c EXCEPT !.k = c.k - 1]
  ELSE c

\* The caller's call is over.
Returned == [IdleCaller EXCEPT !.pc = "returned"]

Active(cs) == {j \in Callers : cs.t[j].pc \notin {"idle", "returned"}}

BothReturned == callers # NoCallers /\ \A j \in Callers : callers.t[j] = Returned

\* Every caller free to enter a method while another is inside one.
CanStart_NoLock(i) == TRUE

\* Serialized execution: a call starts only when no other call is running.
CanStart(i) ==
  IF callers.mode = "serialized" THEN Active(callers) = {} ELSE TRUE

\* The lookups both methods start with (lines 165-168 and 196-199).
BeginCall ==
  \E i \in Callers, op \in {"borrow_book", "return_book"},
     u \in UserIds, b \in BookIds, d \in Dates :
    /\ callers.t[i].pc = "idle"
    /\ CanStart(i)
    /\ IF find_user(Store, u) = 0 \/ find_book(Store, b) = 0
       THEN /\ result' = [op |-> op, user_id |-> u, book_id |-> b,
                          kind |-> IF find_user(Store, u) = 0
                                   THEN "UserNotFound" ELSE "BookNotFound",
                          n |-> 0, msg_auto |-> "", raised |-> "none"]
            /\ callers' = [callers EXCEPT !.t[i] = Returned]
            /\ UNCHANGED <<books, users, undo_stack, file, disk>>
       ELSE /\ callers' =
                 [callers EXCEPT !.t[i] =
                    [IdleCaller EXCEPT
                       !.op = op, !.user_id = u, !.book_id = b,
                       !.fecha = IF op = "borrow_book"
                                 THEN IsoStr(d) ELSE IsoStr(""),
                       !.ui = find_user(Store, u),
                       !.bi = find_book(Store, b),
                       !.pc = IF op = "borrow_book"
                              THEN "b_check" ELSE "r_scan"]]
            /\ UNCHANGED <<books, users, undo_stack, file, disk, result>>

\* The next read or write of a caller that is inside a method.
StepCall ==
  \E i \in Active(callers) :
    /\ callers.t[i].pc # "idle"
    /\ LET c == callers.t[i]
           a == Advance(Store, c)
       IN /\ books' = a.store.books
          /\ users' = a.store.users
          /\ undo_stack' = a.store.undo_stack
          /\ file' = a.store.file
          /\ disk' = a.store.disk
          /\ callers' =
               [callers EXCEPT !.t =
                  [j \in Callers |->
                     IF j = i
                     THEN IF a.done THEN Returned ELSE a.me
                     ELSE Detach(callers.t[j], a.removed)]]
          /\ result' =
               IF a.done
               THEN [op |-> c.op, user_id |-> c.user_id,
                     book_id |-> c.book_id, kind |-> a.kind, n |-> a.n,
                     msg_auto |-> a.me.msg_auto, raised |-> a.raised]
               ELSE result

\* The stores one borrow_book or return_book call can make of the store S.
AfterCall(S) ==
  {borrow_book(S, u, b, IsoStr(d)).store :
     u \in UserIds, b \in BookIds, d \in Dates}
  \cup {return_book(S, u, b, Today).store : u \in UserIds, b \in BookIds}

\* The stores the two callers meet: the one a run starts from, and those that
\* one or two calls have made of it.
RaceStarts ==
  {Start} \cup AfterCall(Start) \cup UNION {AfterCall(S) : S \in AfterCall(Start)}

\* Two callers on one of these stores, either serialized or free to
\* interleave.
InitRace ==
  /\ \E S \in RaceStarts :
       /\ books = S.books
       /\ users = S.users
       /\ undo_stack = S.undo_stack
       /\ file = S.file
       /\ disk = S.disk
  /\ callers \in {[mode |-> m, t |-> [j \in Callers |-> IdleCaller]] :
                    m \in {"serialized", "interleaved"}}
  /\ result = [op |-> "init", user_id |-> None, book_id |-> None,
               kind |-> "none", n |-> 0, msg_auto |-> "", raised |-> "none"]

NextRace == BeginCall \/ StepCall

SpecRace == InitRace /\ [][NextRace]_vars

\* ------------------------------------------------------------ C37
\* C37: with the calls serialized, every state in which no call is running
\* keeps each book's 0 <= copies_available <= copies_total and the sum of
\* copies_available and the lent quantities equal to copies_total; with the
\* two callers' reads and writes interleaved, a state in which no call is
\* running and that breaks this is reachable (C37_Witness).
C37_SerializedKeepsCopies ==
  (callers.mode = "serialized" /\ Active(callers) = {}) => C1_CopiesConserved

\* Interleaved callers have both finished and a book's copies no longer add
\* up.
C37_Witness ==
  /\ callers.mode = "interleaved"
  /\ BothReturned
  /\ ~C1_CopiesConserved

====
